---------------------------- MODULE Spec2Model ----------------------------
(***************************************************************************)
(* faster_whisper_tools/transcribe_audio.py as a state machine.            *)
(*                                                                         *)
(* Times are Python floats (IEEE-754 binary64).  A float is modelled by    *)
(* its exact value, a signed dyadic rational [neg, m, s] = (-1)^neg * m /  *)
(* 2^s.  The magnitude m is a sequence of limbs of LimbBits bits, least    *)
(* significant first, because a 53-bit significand does not fit TLC's      *)
(* 32-bit integers.  Every float operation of the program is computed      *)
(* exactly and then rounded to 53 significant bits, ties to even, as the   *)
(* hardware does.  Exponent range is not modelled: the times of the model  *)
(* are far from overflow and underflow.                                    *)
(***************************************************************************)
EXTENDS Integers, Sequences, FiniteSets, TLC

(***************************************************************************)
(* Unsigned multi-limb numbers, least significant limb first.              *)
(***************************************************************************)
\* a limb holds five hex digits
LimbBits == 5 * 4
Base == 2 ^ LimbBits

Min(a, b) == IF a < b THEN a ELSE b
Max(a, b) == IF a < b THEN b ELSE a

RECURSIVE Trim(_)
Trim(m) == IF m = <<>> THEN <<>>
           ELSE IF m[Len(m)] = 0 THEN Trim(SubSeq(m, 1, Len(m) - 1))
           ELSE m

LimbAt(m, i) == IF 1 <= i /\ i <= Len(m) THEN m[i] ELSE 0

RECURSIVE Nat2Limbs(_)
Nat2Limbs(n) == IF n = 0 THEN <<>> ELSE <<n % Base>> \o Nat2Limbs(n \div Base)

RECURSIVE Limbs2Nat(_)
Limbs2Nat(m) == IF m = <<>> THEN 0 ELSE Head(m) + Base * Limbs2Nat(Tail(m))

RECURSIVE AddFrom(_, _, _, _)
AddFrom(a, b, i, c) ==
    IF i > Len(a) /\ i > Len(b)
    THEN (IF c = 0 THEN <<>> ELSE <<c>>)
    ELSE LET t == LimbAt(a, i) + LimbAt(b, i) + c
         IN  <<t % Base>> \o AddFrom(a, b, i + 1, t \div Base)

BigAdd(a, b) == IF a = <<>> THEN b
                ELSE IF b = <<>> THEN a
                ELSE Trim(AddFrom(a, b, 1, 0))

RECURSIVE SubFrom(_, _, _, _)
SubFrom(a, b, i, c) ==
    IF i > Len(a) THEN <<>>
    ELSE LET t == LimbAt(a, i) - LimbAt(b, i) - c
         IN  <<t % Base>> \o SubFrom(a, b, i + 1, IF t < 0 THEN 1 ELSE 0)

\* a - b for a >= b
BigSub(a, b) == IF b = <<>> THEN a ELSE Trim(SubFrom(a, b, 1, 0))

RECURSIVE MulFrom(_, _, _, _)
MulFrom(a, k, i, c) ==
    IF i > Len(a) THEN Nat2Limbs(c)
    ELSE LET t == a[i] * k + c
         IN  <<t % Base>> \o MulFrom(a, k, i + 1, t \div Base)

\* a * k for 0 <= k < 2^10
BigMul(a, k) == IF a = <<>> THEN <<>> ELSE Trim(MulFrom(a, k, 1, 0))

RECURSIVE LessFrom(_, _, _)
LessFrom(a, b, i) ==
    IF i = 0 THEN FALSE
    ELSE IF a[i] # b[i] THEN a[i] < b[i]
    ELSE LessFrom(a, b, i - 1)

\* a < b, both trimmed
BigLess(a, b) ==
    IF Len(a) # Len(b) THEN Len(a) < Len(b) ELSE LessFrom(a, b, Len(a))

\* a * 2^k
ShiftL(a, k) ==
    LET q == k \div LimbBits
        r == k % LimbBits
        h == 2 ^ (LimbBits - r)
    IN  IF a = <<>> THEN <<>>
        ELSE [i \in 1..q |-> 0] \o
             Trim([i \in 1..(Len(a) + 1) |->
                      (LimbAt(a, i) % h) * (2 ^ r) + (LimbAt(a, i - 1) \div h)])

\* a \div 2^k
ShiftR(a, k) ==
    LET q == k \div LimbBits
        r == k % LimbBits
        b == IF q >= Len(a) THEN <<>> ELSE SubSeq(a, q + 1, Len(a))
    IN  IF a = <<>> THEN <<>>
        ELSE Trim([i \in 1..Len(b) |->
                      (b[i] \div (2 ^ r))
                          + (LimbAt(b, i + 1) % (2 ^ r))
                                * (2 ^ (LimbBits - r))])

\* a % 2^k
LowBits(a, k) ==
    LET q == k \div LimbBits
        r == k % LimbBits
    IN  IF a = <<>> THEN <<>>
        ELSE Trim([i \in 1..Min(Len(a), q + 1) |->
                      IF i <= q THEN a[i] ELSE a[i] % (2 ^ r)])

\* bit i of a, bit 0 the least significant
BitOf(a, i) == (LimbAt(a, (i \div LimbBits) + 1) \div (2 ^ (i % LimbBits))) % 2

\* number of significant bits of a trimmed number
BitLen(a) ==
    IF a = <<>> THEN 0
    ELSE LimbBits * (Len(a) - 1)
             + Cardinality({j \in 0..(LimbBits - 1) : 2 ^ j <= a[Len(a)]})

\* number of zero bits below the lowest set bit of a nonzero number
LowZeros(a) ==
    LET i == CHOOSE j \in 1..Len(a) :
                 a[j] # 0 /\ \A k \in 1..(j - 1) : a[k] = 0
    IN  LimbBits * (i - 1)
            + Cardinality({j \in 1..(LimbBits - 1) : a[i] % (2 ^ j) = 0})

(***************************************************************************)
(* Floats.                                                                 *)
(***************************************************************************)
\* significand width of a Python float
MantBits == 53

\* canonical form of a trimmed magnitude: no fractional trailing zero bits
Norm(neg, m, s) ==
    IF m = <<>> THEN [neg |-> FALSE, m |-> <<>>, s |-> 0]
    ELSE LET z == Min(LowZeros(m), s)
         IN  [neg |-> neg, m |-> ShiftR(m, z), s |-> s - z]

\* round a magnitude to MantBits significant bits, ties to even
Round53(m) ==
    LET d == BitLen(m) - MantBits
    IN  IF m = <<>> \/ d <= 0 THEN m
        ELSE LET keep == ShiftR(m, d)
                 half == BitOf(m, d - 1) = 1
                 rest == LowBits(m, d - 1) # <<>>
                 up   == half /\ (rest \/ BitOf(keep, 0) = 1)
             IN  ShiftL(IF up THEN BigAdd(keep, <<1>>) ELSE keep, d)

FloatOfInt(n) == IF n < 0 THEN [neg |-> TRUE, m |-> Nat2Limbs(-n), s |-> 0]
                 ELSE [neg |-> FALSE, m |-> Nat2Limbs(n), s |-> 0]

FZero == FloatOfInt(0)

FNeg(x) == IF x.m = <<>> THEN x ELSE [x EXCEPT !.neg = ~x.neg]

\* hex digit k of h, counted from the least significant, h being written most
\* significant first
HexDigit(h, k) == IF k < Len(h) THEN h[Len(h) - k] ELSE 0

\* the number written with the hex digits h: a limb holds five of them
HexToBig(h) ==
    Trim([j \in 1..((Len(h) + 4) \div 5) |->
             HexDigit(h, 5 * j - 5) + 16 * HexDigit(h, 5 * j - 4)
                 + 256 * HexDigit(h, 5 * j - 3) + 4096 * HexDigit(h, 5 * j - 2)
                 + 65536 * HexDigit(h, 5 * j - 1)])

\* the float that float.hex() prints as 0x1.<13 hex digits>p<e>: h holds the
\* leading 1 and the 13 digits, 4 * 13 fraction bits in all
Float(neg, h, e) == Norm(neg, HexToBig(h), 4 * (Len(h) - 1) - e)

\* x + y, correctly rounded
FAdd(x, y) ==
    LET s  == Max(x.s, y.s)
        a  == ShiftL(x.m, s - x.s)
        b  == ShiftL(y.m, s - y.s)
    IN  IF x.neg = y.neg
        THEN Norm(x.neg, Round53(BigAdd(a, b)), s)
        ELSE IF BigLess(a, b)
        THEN Norm(y.neg, Round53(BigSub(b, a)), s)
        ELSE Norm(x.neg, Round53(BigSub(a, b)), s)

\* x - y, correctly rounded
FSub(x, y) == FAdd(x, FNeg(y))

\* x < y on exact values
FLess(x, y) ==
    LET s == Max(x.s, y.s)
        a == ShiftL(x.m, s - x.s)
        b == ShiftL(y.m, s - y.s)
    IN  IF x.neg # y.neg THEN x.neg
        ELSE IF x.neg THEN BigLess(b, a) ELSE BigLess(a, b)

FLeq(x, y) == ~FLess(y, x)

\* x * k for an integer 0 < k < 2^10, correctly rounded
FMulInt(x, k) == IF x.m = <<>> THEN x
                 ELSE Norm(x.neg, Round53(BigMul(x.m, k)), x.s)

\* whole part of |x| (below 2^31) and its fraction bits
Whole(x) == Limbs2Nat(ShiftR(x.m, x.s))
Frac(x)  == LowBits(x.m, x.s)

\* C fmod(x, k) for a positive integer k: exact, with the sign of x
FFmod(x, k) ==
    IF x.m = <<>> THEN x
    ELSE Norm(x.neg,
              BigAdd(LowBits(x.m, x.s),
                     ShiftL(Nat2Limbs(Limbs2Nat(ShiftR(x.m, x.s)) % k), x.s)),
              x.s)

\* Python float x % k for a positive integer k (float_rem): the remainder of
\* fmod takes the sign of k, by a rounded addition of k
FMod(x, k) ==
    LET r == FFmod(x, k)
    IN  IF r.m # <<>> /\ r.neg THEN FAdd(r, FloatOfInt(k)) ELSE r

\* Python int(x): truncation toward zero
FInt(x) == IF x.neg THEN -Whole(x) ELSE Whole(x)

\* Python int(x // k) for a positive integer k (float_floor_div): the quotient
\* (x - fmod(x, k)) / k is an exact integer, lowered by one when the remainder
\* had to change sign
FFloorDivInt(x, k) ==
    LET r == FFmod(x, k)
        q == Whole(x) \div k
    IN  IF x.neg THEN (IF r.m # <<>> THEN -q - 1 ELSE -q) ELSE q

(***************************************************************************)
(* Strings.                                                                *)
(***************************************************************************)
Digit(d) == CASE d = 0 -> "0" [] d = 1 -> "1" [] d = 2 -> "2" [] d = 3 -> "3"
              [] d = 4 -> "4" [] d = 5 -> "5" [] d = 6 -> "6" [] d = 7 -> "7"
              [] d = 8 -> "8" [] d = 9 -> "9"

RECURSIVE Decimal(_)
Decimal(n) == IF n < 10 THEN Digit(n) ELSE Decimal(n \div 10) \o Digit(n % 10)

\* str(n)
Str(n) == IF n < 0 THEN "-" \o Decimal(-n) ELSE Decimal(n)

RECURSIVE PadLeft(_, _)
PadLeft(str, w) == IF Len(str) >= w THEN str ELSE PadLeft("0" \o str, w)

\* "{:0wd}".format(n): the sign counts toward the width and precedes the zeros
PadInt(n, w) == IF n < 0 THEN "-" \o PadLeft(Decimal(-n), w - 1)
                ELSE PadLeft(Decimal(n), w)

(***************************************************************************)
(* SRTSegment                                                              *)
(***************************************************************************)
SecPerHour == 3600
SecPerMin  == 60
MsPerSec   == 1000

\* int(time // 3600)
Hours(time)   == FFloorDivInt(time, SecPerHour)
\* int((time % 3600) // 60)
Minutes(time) == FFloorDivInt(FMod(time, SecPerHour), SecPerMin)
\* int(time % 60)
Seconds(time) == FInt(FMod(time, SecPerMin))

\* int(round((time % 1) * 1000))
MillisRounded(time) ==
    LET p == FMulInt(FMod(time, 1), MsPerSec)
    IN  IF BitOf(ShiftL(p.m, 1), p.s) = 1 THEN Whole(p) + 1 ELSE Whole(p)

\* int((time % 1) * 1000)
Millis(time)  == FInt(FMulInt(FMod(time, 1), MsPerSec))

_format_timestamp(time) ==
    PadInt(Hours(time), 2) \o ":" \o PadInt(Minutes(time), 2) \o ":"
        \o PadInt(Seconds(time), 2) \o "," \o PadInt(Millis(time), 3)

SRTSegment(index, start_time, end_time, text) ==
    [index |-> index, start_time |-> start_time, end_time |-> end_time,
     text |-> text]

to_srt_string(self) ==
    LET start_timestamp == _format_timestamp(self.start_time)
        end_timestamp   == _format_timestamp(self.end_time)
    IN  Str(self.index) \o "\n" \o start_timestamp \o " --> " \o end_timestamp
            \o "\n" \o self.text \o "\n"

(***************************************************************************)
(* Inputs.                                                                 *)
(***************************************************************************)
\* most segments one stream yields in the model
MaxSegs == 3

F0_009      == Float(FALSE, <<1, 2,6,14,9,7,8,13,4,15,13,15,3,11>>, -7)
F0_1        == Float(FALSE, <<1, 9,9,9,9,9,9,9,9,9,9,9,9,10>>, -4)
F0_3        == Float(FALSE, <<1, 3,3,3,3,3,3,3,3,3,3,3,3,3>>, -2)
F0_9        == Float(FALSE, <<1, 12,12,12,12,12,12,12,12,12,12,12,12,13>>, -1)
F0_9999     == Float(FALSE, <<1, 15,15,15,2,14,4,8,14,8,10,7,1,14>>, -1)
FBelow1     == Float(FALSE, <<1, 15,15,15,15,15,15,15,15,15,15,15,15,15>>, -1)
F1_001      == Float(FALSE, <<1, 0,0,4,1,8,9,3,7,4,11,12,6,10>>, 0)
F2_5        == Float(FALSE, <<1, 4,0,0,0,0,0,0,0,0,0,0,0,0>>, 1)
F4_35       == Float(FALSE, <<1, 1,6,6,6,6,6,6,6,6,6,6,6,6>>, 2)
F59_999     == Float(FALSE, <<1, 13,15,15,13,15,3,11,6,4,5,10,1,13>>, 5)
F3599_5     == Float(FALSE, <<1, 12,1,15,0,0,0,0,0,0,0,0,0,0>>, 11)
F3661_5     == Float(FALSE, <<1, 12,9,11,0,0,0,0,0,0,0,0,0,0>>, 11)
F359999_999 == Float(FALSE, <<1, 5,15,8,15,15,15,14,15,9,13,11,2,3>>, 18)
FNeg0_5     == Float(TRUE,  <<1, 0,0,0,0,0,0,0,0,0,0,0,0,0>>, -1)
FNeg1       == FloatOfInt(-1)
FNeg3661_5  == FNeg(F3661_5)
FNegTiny    == Float(TRUE,  <<1, 7,9,12,10,1,0,12,9,2,4,2,2,3>>, -67)

\* segment.end and segment.text values the engine's stream yields
SegEnds  == {F0_1, F0_3, F0_9, F2_5}
SegTexts == {"Hello", "world."}
Segments == [end : SegEnds, text : SegTexts]

\* info.duration values the engine reports
Durations == {F0_9, F2_5}

\* times handed to SRTSegment directly
FmtTimes == {FZero, F0_009, F0_9999, FBelow1, F1_001, F2_5, F4_35, F59_999,
             F3599_5, F3661_5, F359999_999, FNeg0_5, FNeg1, FNeg3661_5,
             FNegTiny}

(***************************************************************************)
(* Module constants and the command line.                                  *)
(***************************************************************************)
AVAILABLE_MODELS ==
    <<"tiny.en", "tiny", "base.en", "base", "small.en", "small", "medium.en",
      "medium", "large", "large-v2", "large-v3">>

\* an option that is not on the command line
Absent == "<absent>"

DefaultModel     == "tiny.en"
DefaultOutputDir == "./output"

InChoices(x) == \E i \in DOMAIN AVAILABLE_MODELS : AVAILABLE_MODELS[i] = x

Argvs == [filename   : {"a.wav", Absent},
          model      : {AVAILABLE_MODELS[i] : i \in DOMAIN AVAILABLE_MODELS}
                           \cup {"huge", Absent},
          output_dir : {"out", "", Absent}]

ParseOkAnyModel(argv) == argv.filename # Absent

\* parser.parse_args(): --filename is required, --model must be a choice
ParseOk(argv) ==
    /\ argv.filename # Absent
    /\ argv.model # Absent => InChoices(argv.model)

ParseArgs(argv) ==
    [filename   |-> argv.filename,
     model      |-> IF argv.model = Absent THEN DefaultModel ELSE argv.model,
     output_dir |-> IF argv.output_dir = Absent THEN DefaultOutputDir
                    ELSE argv.output_dir]

\* datetime.now().strftime("%Y%m%d_%H%M%S") readings
Clock == {"20240101_120000", "20240101_120001"}

(***************************************************************************)
(* Pure parts of transcribe_audio and of the writer.                       *)
(***************************************************************************)
EnumStart == 1

EnumerateFromZero(k) == k

\* enumerate(segments, start=1): the index given to the item after k others
Enumerate(k) == EnumStart + k

\* SRTSegment(idx, start_time, segment.end, segment.text)
NewRecord(i, st, segment) == SRTSegment(i, st, segment.end, segment.text)

DeltaFromZero(segment, st) == segment.end

\* segment.end - start_time
Delta(segment, st) == FSub(segment.end, st)

\* tqdm.update(n): self.n += n
PbarUpdate(n, delta) == FAdd(n, delta)

NextStartStale(segment) == FZero

\* start_time = segment.end
NextStart(segment) == segment.end

RECURSIVE JoinNoSep(_, _)
JoinNoSep(sep, parts) ==
    IF parts = <<>> THEN "" ELSE parts[1] \o JoinNoSep(sep, Tail(parts))

RECURSIVE Join(_, _)
Join(sep, parts) ==
    IF parts = <<>> THEN ""
    ELSE IF Len(parts) = 1 THEN parts[1]
    ELSE parts[1] \o sep \o Join(sep, Tail(parts))

\* " ".join(full_txt), srt_segments
TranscribeResult(txt, segs) == [transcript |-> Join(" ", txt), records |-> segs]

\* os.path.join(output_dir, name), kept as its two parts
PathJoin(dir, name) == [dir |-> dir, name |-> name]
\* os.path.dirname(path)
Dirname(path) == path.dir
PathStr(path) == IF path.dir = "" THEN path.name
                 ELSE path.dir \o "/" \o path.name

OutputName(now_str) == now_str \o "_output.txt"

\* parameters of transcribe_audio, and arguments process_audio_file passes it
TranscribeAudioParams == 2
ProcessCallArgs == 3

\* a call binds when it passes as many positional arguments as parameters
Binds(nargs, nparams) == nargs = nparams

(***************************************************************************)
(* State.                                                                  *)
(***************************************************************************)
VARIABLES
    pc,            \* "idle", "loop" (inside the for loop), "returned", "raised"
    call,          \* the outermost call: [fn, args]
    engine,        \* model sizes WhisperModel was constructed with, in order
    duration,      \* info.duration
    consumed,      \* segments the stream has yielded so far
    stream_faulted, \* the stream has raised
    full_txt, srt_segments, start_time,
    pbar_n,        \* tqdm's n
    pbar_updates,  \* the deltas passed to pbar.update, in order
    result,        \* the outermost call's return value
    exception,     \* the exception that left the outermost call
    dirs,          \* directories created
    files          \* files written: a set of [path, text]

vars == <<pc, call, engine, duration, consumed, stream_faulted, full_txt, srt_segments,
          start_time, pbar_n, pbar_updates, result, exception, dirs, files>>

loopVars == <<duration, consumed, stream_faulted, full_txt, srt_segments, start_time,
              pbar_n, pbar_updates>>

None == "None"

Init ==
    /\ pc = "idle"
    /\ call = [fn |-> "none", args |-> <<>>]
    /\ engine = <<>>
    /\ duration = FZero
    /\ consumed = <<>>
    /\ stream_faulted = FALSE
    /\ full_txt = <<>>
    /\ srt_segments = <<>>
    /\ start_time = FZero
    /\ pbar_n = FZero
    /\ pbar_updates = <<>>
    /\ result = None
    /\ exception = None
    /\ dirs = {}
    /\ files = {}

(***************************************************************************)
(* Steps shared by the entry points.                                       *)
(***************************************************************************)
\* an exception leaves the outermost call
Raise(e) ==
    /\ pc' = "raised"
    /\ exception' = e
    /\ UNCHANGED <<result, dirs, files>>

\* transcribe_audio up to the first iteration: the engine is constructed and
\* asked to transcribe; it hands back a lazy stream and info
EnterTranscribe(model_size) ==
    /\ engine' = Append(engine, model_size)
    /\ \E d \in Durations : duration' = d
    /\ consumed' = <<>>
    /\ stream_faulted' = FALSE
    /\ full_txt' = <<>>
    /\ srt_segments' = <<>>
    /\ start_time' = FZero
    /\ pbar_n' = FZero
    /\ pbar_updates' = <<>>
    /\ pc' = "loop"
    /\ UNCHANGED <<result, exception, dirs, files>>

\* save_to_file(text, output_file), then the caller's return of ret; main
\* discards what process_audio_file returns
SaveToFile(text, output_file, ret) ==
    IF Dirname(output_file) = ""
    THEN Raise("FileNotFoundError")       \* os.makedirs("")
    ELSE /\ dirs' = dirs \cup {Dirname(output_file)}
         /\ files' = {f \in files : f.path # PathStr(output_file)}
                         \cup {[path |-> PathStr(output_file), text |-> text]}
         /\ result' = IF call'.fn = "main" THEN None ELSE ret
         /\ pc' = "returned"
         /\ UNCHANGED exception

\* save_transcription_and_summarize(transcription, output_dir)
SaveTranscriptionAndSummarize(transcription, output_dir) ==
    \E now_str \in Clock :
        LET output_text_file == PathJoin(output_dir, OutputName(now_str))
        IN  SaveToFile(transcription, output_text_file,
                       PathStr(output_text_file))

\* process_audio_file(audio_file_path, model_size, output_dir): its call of
\* transcribe_audio passes ProcessCallArgs arguments
ProcessAudioFile(audio_file_path, model_size, output_dir) ==
    IF Binds(ProcessCallArgs, TranscribeAudioParams)
    THEN EnterTranscribe(model_size)
    ELSE Raise("TypeError") /\ UNCHANGED <<engine, loopVars>>

ViaProcess == call.fn \in {"main", "process_audio_file"}

\* the output_dir process_audio_file was called with
OutputDir == IF call.fn = "main" THEN ParseArgs(call.args).output_dir
             ELSE call.args.output_dir

(***************************************************************************)
(* Entry points.                                                           *)
(***************************************************************************)
\* python transcribe_audio.py <argv>
Main(argv) ==
    /\ pc = "idle"
    /\ call' = [fn |-> "main", args |-> argv]
    /\ IF ParseOk(argv)
       THEN LET args == ParseArgs(argv)
            IN  ProcessAudioFile(args.filename, args.model, args.output_dir)
       ELSE Raise("SystemExit") /\ UNCHANGED <<engine, loopVars>>

CallProcessAudioFile(audio_file_path, model_size, output_dir) ==
    /\ pc = "idle"
    /\ call' = [fn |-> "process_audio_file",
                args |-> [filename |-> audio_file_path, model |-> model_size,
                          output_dir |-> output_dir]]
    /\ ProcessAudioFile(audio_file_path, model_size, output_dir)

CallTranscribeAudio(audio_file_path, model_size) ==
    /\ pc = "idle"
    /\ call' = [fn |-> "transcribe_audio",
                args |-> [filename |-> audio_file_path, model |-> model_size]]
    /\ EnterTranscribe(model_size)

\* one iteration of the for loop: the stream yields a segment
NextSegment(segment) ==
    /\ pc = "loop"
    /\ Len(consumed) < MaxSegs
    /\ LET idx == Enumerate(Len(consumed))
       IN  /\ consumed' = Append(consumed, segment)
           /\ full_txt' = Append(full_txt, segment.text)
           /\ srt_segments' =
                  Append(srt_segments, NewRecord(idx, start_time, segment))
           /\ pbar_updates' = Append(pbar_updates, Delta(segment, start_time))
           /\ pbar_n' = PbarUpdate(pbar_n, Delta(segment, start_time))
           /\ start_time' = NextStart(segment)
    /\ UNCHANGED <<pc, call, engine, duration, stream_faulted, result,
                   exception, dirs, files>>

\* the stream is exhausted: the loop and the with block end, transcribe_audio
\* returns, and process_audio_file, when it is the caller, saves
StreamEnd ==
    /\ pc = "loop"
    /\ UNCHANGED <<call, engine, loopVars>>
    /\ LET ret == TranscribeResult(full_txt, srt_segments)
       IN  IF ViaProcess
           THEN SaveTranscriptionAndSummarize(ret.transcript, OutputDir)
           ELSE /\ result' = ret
                /\ pc' = "returned"
                /\ UNCHANGED <<exception, dirs, files>>

\* the stream raises while the loop asks it for the next segment: nothing in
\* transcribe_audio, process_audio_file or main catches it
StreamFaultSwallowed ==
    /\ pc = "loop"
    /\ stream_faulted' = TRUE
    /\ result' = TranscribeResult(full_txt, srt_segments)
    /\ pc' = "returned"
    /\ UNCHANGED <<call, engine, duration, consumed, full_txt, srt_segments,
                   start_time, pbar_n, pbar_updates, exception, dirs, files>>

StreamFault ==
    /\ pc = "loop"
    /\ stream_faulted' = TRUE
    /\ Raise("StreamFault")
    /\ UNCHANGED <<call, engine, duration, consumed, full_txt, srt_segments,
                   start_time, pbar_n, pbar_updates>>

CallSaveTranscriptionAndSummarize(transcription, output_dir) ==
    /\ pc = "idle"
    /\ call' = [fn |-> "save_transcription_and_summarize",
                args |-> [transcription |-> transcription,
                          output_dir |-> output_dir]]
    /\ SaveTranscriptionAndSummarize(transcription, output_dir)
    /\ UNCHANGED <<engine, loopVars>>

CallFormatTimestamp(time) ==
    /\ pc = "idle"
    /\ call' = [fn |-> "_format_timestamp", args |-> [time |-> time]]
    /\ result' = _format_timestamp(time)
    /\ pc' = "returned"
    /\ UNCHANGED <<engine, loopVars, exception, dirs, files>>

CallToSrtString(self) ==
    /\ pc = "idle"
    /\ call' = [fn |-> "to_srt_string", args |-> self]
    /\ result' = to_srt_string(self)
    /\ pc' = "returned"
    /\ UNCHANGED <<engine, loopVars, exception, dirs, files>>

Next ==
    \/ \E argv \in Argvs : Main(argv)
    \/ \E m \in {"tiny.en", "huge"}, o \in {"out", ""} :
           CallProcessAudioFile("a.wav", m, o)
    \/ \E m \in {"tiny.en", "huge"} : CallTranscribeAudio("a.wav", m)
    \/ \E segment \in Segments : NextSegment(segment)
    \/ StreamEnd
    \/ StreamFault
    \/ \E t \in {"", "Hello world."}, o \in {"out", ""} :
           CallSaveTranscriptionAndSummarize(t, o)
    \/ \E time \in FmtTimes : CallFormatTimestamp(time)
    \/ \E i \in 1..2, st \in FmtTimes, et \in FmtTimes, text \in {"Hi"} :
           CallToSrtString(SRTSegment(i, st, et, text))

Spec == Init /\ [][Next]_vars

(***************************************************************************)
(* Properties.                                                             *)
(***************************************************************************)
Terminated  == pc \in {"returned", "raised"}
Transcribed == call.fn = "transcribe_audio" /\ pc = "returned"
N == Len(consumed)

EndsNonDecreasing ==
    \A i \in 2..N : FLeq(consumed[i - 1].end, consumed[i].end)
EndsWithinDuration == \A i \in 1..N : FLeq(consumed[i].end, duration)

\* |x - y|, exact, for x, y >= 0
AbsDiff(x, y) ==
    LET s == Max(x.s, y.s)
        a == ShiftL(x.m, s - x.s)
        b == ShiftL(y.m, s - y.s)
    IN  Norm(FALSE, IF BigLess(a, b) THEN BigSub(b, a) ELSE BigSub(a, b), s)

\* n * 2^-52 * x, exact, for x >= 0 and n < 2^10: n units in the last place
Ulps(n, x) == Norm(FALSE, BigMul(x.m, n), x.s + MantBits - 1)

\* the sum of the first k deltas passed to the progress bar, as tqdm adds them
RECURSIVE Progress(_)
Progress(k) == IF k = 0 THEN FZero ELSE FAdd(Progress(k - 1), pbar_updates[k])

\* C1: a run of main or of process_audio_file with valid arguments whose
\* stream raises no fault ends by returning, with the engine invoked once and
\* exactly one transcript file, holding the transcript, written at
\* <output_dir>/<timestamp>_output.txt; process_audio_file returns that path.
C1_PipelineCompletes ==
    (/\ ViaProcess
     /\ call.fn = "main" => ParseOk(call.args)
     /\ InChoices(IF call.fn = "main" THEN ParseArgs(call.args).model
                  ELSE call.args.model)
     /\ OutputDir # ""
     /\ Terminated
     /\ ~stream_faulted)
    => /\ pc = "returned"
       /\ exception = None
       /\ Len(engine) = 1
       /\ \E now_str \in Clock :
              LET path == PathStr(PathJoin(OutputDir, OutputName(now_str)))
              IN  /\ call.fn = "process_audio_file" => result = path
                  /\ files = {[path |-> path,
                               text |-> Join(" ", full_txt)]}

\* C2: the records built from a stream of N segments carry the indices 1..N in
\* order, at every step and in the returned list; an empty stream returns an
\* empty record list and the empty transcript.
C2_IndexContiguity ==
    /\ Len(srt_segments) = N
    /\ \A i \in 1..Len(srt_segments) : srt_segments[i].index = i
    /\ Transcribed =>
           /\ Len(result.records) = N
           /\ \A i \in 1..Len(result.records) : result.records[i].index = i
           /\ N = 0 => result.records = <<>> /\ result.transcript = ""

C2_Witness == Transcribed /\ N = 3 /\ result.records[3].index = 3

\* C3: each record starts where the previous one ended, the first at 0.0, and
\* ends at the end of its segment, after every step of the loop and in the
\* returned list.
C3_TimeContiguity ==
    /\ \A i \in 1..Len(srt_segments) :
           /\ srt_segments[i].start_time =
                  (IF i = 1 THEN FZero ELSE srt_segments[i - 1].end_time)
           /\ i <= N => srt_segments[i].end_time = consumed[i].end
    /\ Transcribed => result.records = srt_segments

C3_Witness ==
    /\ pc = "loop"
    /\ Len(srt_segments) = 3
    /\ srt_segments[3].start_time = F0_3
    /\ srt_segments[2].end_time = F0_3

\* C4: once a segment ends before the running start_time the accumulator has
\* raised: no record has start_time > end_time, no delta is negative, and no
\* later segment is consumed.
C4_FailsFastOnBackwardSegment ==
    /\ \A i \in 1..Len(srt_segments) :
           FLeq(srt_segments[i].start_time, srt_segments[i].end_time)
    /\ \A i \in 1..Len(pbar_updates) : FLeq(FZero, pbar_updates[i])
    /\ \A i \in 2..N :
           FLess(consumed[i].end, consumed[i - 1].end)
               => pc = "raised" /\ N = i

\* C5: once the stream has raised, the call has ended with that fault, has
\* returned nothing and has written no file; a file exists only after a call
\* that returned.
C5_NoPartialWrite ==
    /\ stream_faulted =>
           /\ pc = "raised"
           /\ exception = "StreamFault"
           /\ result = None
           /\ files = {}
    /\ files # {} => pc = "returned" /\ ~stream_faulted

C5_Witness == stream_faulted /\ N = 2 /\ pc = "raised" /\ files = {}

\* the texts joined from the left, one space between neighbours
RECURSIVE SpaceJoined(_)
SpaceJoined(texts) ==
    IF texts = <<>> THEN ""
    ELSE IF Len(texts) = 1 THEN texts[1]
    ELSE SpaceJoined(SubSeq(texts, 1, Len(texts) - 1)) \o " "
             \o texts[Len(texts)]

\* C6: the transcript is the consumed segments' texts in arrival order with a
\* single space between neighbours, one fragment per record in record order.
C6_Transcript ==
    /\ full_txt = [i \in 1..N |-> consumed[i].text]
    /\ Transcribed =>
           /\ result.transcript = SpaceJoined([i \in 1..N |-> consumed[i].text])
           /\ Len(result.records) = Len(full_txt)
           /\ \A i \in 1..Len(result.records) :
                  result.records[i].text = full_txt[i]
           /\ full_txt = <<"Hello", "world.">>
                  => result.transcript = "Hello world."

C6_Witness ==
    /\ Transcribed
    /\ full_txt = <<"Hello", "world.">>
    /\ result.transcript = "Hello world."

\* C7 as claimed: with non-decreasing ends at most the total duration, progress
\* never decreases, never exceeds the total, and after all segments equals the
\* last record's end_time.
C7_ProgressExact ==
    (EndsNonDecreasing /\ EndsWithinDuration) =>
        /\ pbar_n = Progress(Len(pbar_updates))
        /\ \A k \in 1..Len(pbar_updates) : FLeq(Progress(k - 1), Progress(k))
        /\ FLeq(pbar_n, duration)
        /\ (Terminated /\ N > 0) => pbar_n = srt_segments[N].end_time

\* C7 amended: with non-decreasing ends at most the total duration, progress
\* is the float sum of the deltas, never decreases, and after N segments is
\* within N units in the last place (N * 2^-52 relative) of the last record's
\* end_time, so it exceeds the total by no more than that rounding error.
C7_ProgressWithinRounding ==
    (EndsNonDecreasing /\ EndsWithinDuration) =>
        /\ Len(pbar_updates) = N
        /\ pbar_n = Progress(N)
        /\ \A k \in 1..N : FLeq(Progress(k - 1), Progress(k))
        /\ N > 0 =>
               /\ FLeq(AbsDiff(pbar_n, srt_segments[N].end_time),
                       Ulps(N, srt_segments[N].end_time))
               /\ \/ FLeq(pbar_n, duration)
                  \/ FLeq(AbsDiff(pbar_n, duration), Ulps(N, duration))

C7_Witness ==
    /\ Transcribed
    /\ EndsNonDecreasing /\ EndsWithinDuration
    /\ N = 3
    /\ pbar_n # srt_segments[N].end_time
    /\ FLess(duration, pbar_n)

\* floor((t mod 1) * 1000) in exact arithmetic, t >= 0
ExactMillis(time) ==
    Limbs2Nat(ShiftR(BigMul(Frac(time), MsPerSec), time.s))

\* the exact product (t mod 1) * 1000 is within 2^-44 below the whole number k
JustBelow(time, k) ==
    /\ time.s >= 44
    /\ ~BigLess(ShiftL(<<1>>, time.s - 44),
                BigSub(ShiftL(Nat2Limbs(k), time.s),
                       BigMul(Frac(time), MsPerSec)))

\* HH:MM:SS,mmm of t >= 0 with every field an exact floor, given milliseconds
Rendered(time, ms) ==
    PadInt(Whole(time) \div 3600, 2) \o ":"
        \o PadInt((Whole(time) % 3600) \div 60, 2) \o ":"
        \o PadInt(Whole(time) % 60, 2) \o "," \o PadInt(ms, 3)

Formatted ==
    call.fn = "_format_timestamp" /\ pc = "returned" /\ ~call.args.time.neg

\* C8 as claimed: every field of the timestamp of t >= 0 is the exact floor,
\* milliseconds being floor((t mod 1) * 1000), never rounded.
C8_FormatTruncates ==
    Formatted =>
        result = Rendered(call.args.time, ExactMillis(call.args.time))

\* C8 amended: hours, minutes and seconds are exact floors, minutes and seconds
\* in 0..59; milliseconds are the floor of the float product (t mod 1) * 1000,
\* in 0..999: the exact floor, or the next whole number k when the exact
\* product is within 2^-44 below k and the float product rounds to k.  The
\* three examples of the claim hold.
C8_FormatTruncatesFloatProduct ==
    Formatted =>
        LET t == call.args.time
            e == ExactMillis(t)
        IN  /\ \/ result = Rendered(t, e)
               \/ /\ result = Rendered(t, e + 1)
                  /\ JustBelow(t, e + 1)
            /\ Minutes(t) \in 0..59 /\ Seconds(t) \in 0..59
            /\ Millis(t) \in 0..999
            /\ t = FZero => result = "00:00:00,000"
            /\ t = F3661_5 => result = "01:01:01,500"
            /\ t = F59_999 => result = "00:00:59,999"
            /\ t = F0_9999 => result = "00:00:00,999"

C8_Witness ==
    /\ Formatted
    /\ call.args.time = F59_999
    /\ result = "00:00:59,999"

\* C9: serializing a negative time raises instead of returning a string.
C9_NegativeTimeRaises ==
    /\ (call.fn = "_format_timestamp" /\ call.args.time.neg) => pc = "raised"
    /\ (call.fn = "to_srt_string"
            /\ (call.args.start_time.neg \/ call.args.end_time.neg))
           => pc = "raised"

\* C10: a --model outside AVAILABLE_MODELS ends main with the parser's
\* SystemExit before process_audio_file is called, and main never constructs
\* the engine with a model outside AVAILABLE_MODELS.
C10_ModelValidatedFirst ==
    call.fn = "main" =>
        /\ \A i \in 1..Len(engine) : InChoices(engine[i])
        /\ (call.args.model # Absent /\ ~InChoices(call.args.model)) =>
               /\ pc = "raised"
               /\ exception = "SystemExit"
               /\ engine = <<>>

C10_Witness ==
    /\ call.fn = "main"
    /\ call.args.model = "huge"
    /\ call.args.filename = "a.wav"
    /\ exception = "SystemExit"
    /\ engine = <<>>

=============================================================================
